---- MODULE Spec2Model ----
(***************************************************************************)
(* Threaded private messaging of core/views.py: the Message table, the     *)
(* composer (SendMessageView), the thread view (MessageDetailView), the    *)
(* inbox aggregator (InboxView) and the per-user soft delete               *)
(* (delete_conversation_view).                                             *)
(*                                                                         *)
(* The Message table is the sequence msgs; a row's primary key is its      *)
(* index, 0 stands for a null foreign key.  Spec runs every request to     *)
(* completion before the next one starts; SpecC interleaves the queries    *)
(* and row writes of requests of different users.                          *)
(***************************************************************************)
EXTENDS Integers, Sequences, FiniteSets, TLC

VARIABLES msgs, now, reqs, served

vars == <<msgs, now, reqs, served>>

\* The registered users (CustomUser rows).
Users == {"A", "B", "C"}

\* At most this many Message rows are created.
MaxMsgs == 3

None == 0

\* Primary keys of the rows of table db.
PKs(db) == 1..Len(db)

\* Primary keys a request may name: every row's, and one that does not exist.
RequestPKs == 1..(MaxMsgs + 1)

\* A fresh Message row: is_read and both deletion flags default to False.
Message(sender, receiver, sent_at, parent_message, conversation_starter) ==
    [sender |-> sender, receiver |-> receiver, sent_at |-> sent_at,
     is_read |-> FALSE,
     parent_message |-> parent_message,
     conversation_starter |-> conversation_starter,
     is_deleted_by_sender |-> FALSE, is_deleted_by_receiver |-> FALSE]

\* The receivers the compose form offers to user: anyone but the sender.
ReceiverChoices(user) == Users \ {user}

\* Q(sender=user, is_deleted_by_sender=False) | Q(receiver=user, is_deleted_by_receiver=False)
Visible(m, user) ==
    \/ (m.sender = user /\ ~m.is_deleted_by_sender)
    \/ (m.receiver = user /\ ~m.is_deleted_by_receiver)

\* Q(conversation_starter=starter) | Q(pk=starter.pk)
InThread(db, pk, starter) ==
    db[pk].conversation_starter = starter \/ pk = starter

\* The rows of S with the least (desc: the greatest) sent_at.
First(db, S, desc) ==
    {p \in S : \A q \in S : IF desc THEN db[q].sent_at <= db[p].sent_at
                                    ELSE db[p].sent_at <= db[q].sent_at}

\* order_by('sent_at') / order_by('-sent_at') / sorted(key=sent_at, reverse=desc):
\* the primary keys of S as a sequence, rows with equal sent_at in pk order.
RECURSIVE OrderBy(_, _, _)
OrderBy(db, S, desc) ==
    IF S = {} THEN <<>>
    ELSE LET f == First(db, S, desc)
             p == CHOOSE x \in f : \A y \in f : x <= y
         IN  <<p>> \o OrderBy(db, S \ {p}, desc)

Range(s) == {s[i] : i \in 1..Len(s)}

\* sorted(rows, key=lambda x: x.sent_at, reverse=desc): a stable insertion of
\* row p into the sorted list s.
RECURSIVE Insert(_, _, _, _)
Insert(db, s, p, desc) ==
    IF s = <<>> THEN <<p>>
    ELSE LET before == IF desc THEN db[Head(s)].sent_at >= db[p].sent_at
                               ELSE db[Head(s)].sent_at <= db[p].sent_at
         IN  IF before THEN <<Head(s)>> \o Insert(db, Tail(s), p, desc)
                       ELSE <<p>> \o s

RECURSIVE Sorted(_, _, _)
Sorted(db, rows, desc) ==
    IF rows = <<>> THEN <<>>
    ELSE Insert(db, Sorted(db, SubSeq(rows, 1, Len(rows) - 1), desc),
                rows[Len(rows)], desc)

(***************************************************************************)
(* InboxView.get_queryset                                                  *)
(***************************************************************************)

\* The thread of starter as user sees it.
VisibleThread(db, user, starter) ==
    {p \in PKs(db) : InThread(db, p, starter) /\ Visible(db[p], user)}

\* ....order_by('-sent_at').first(): the latest row of the thread visible to
\* user, None when there is none.
LatestInThread(db, user, starter) ==
    LET s == OrderBy(db, VisibleThread(db, user, starter), TRUE)
    IN  IF s = <<>> THEN None ELSE s[1]

\* The conversation starters whose threads the inbox lists.
ValidConversationStarters(db, user) ==
    LET involved    == {p \in PKs(db) : Visible(db[p], user)}
        starter_ids == {db[p].conversation_starter : p \in involved}
        initial_ids == {p \in involved : db[p].conversation_starter = None}
        unique_starter_pks == (starter_ids \cup initial_ids) \ {None}
    IN  {p \in unique_starter_pks : p \in PKs(db) /\ Visible(db[p], user)}

RECURSIVE LatestPerConversation(_, _, _)
LatestPerConversation(db, user, starters) ==
    IF starters = <<>> THEN <<>>
    ELSE LET latest == LatestInThread(db, user, Head(starters))
             rest   == LatestPerConversation(db, user, Tail(starters))
         IN  IF latest # None THEN <<latest>> \o rest ELSE rest

\* The inbox of user: one summary row (a primary key) per listed thread,
\* latest first.
InboxView_get_queryset(db, user) ==
    LET starters == OrderBy(db, ValidConversationStarters(db, user), FALSE)
    IN  Sorted(db, LatestPerConversation(db, user, starters), TRUE)

(***************************************************************************)
(* SentMessagesView.get_queryset                                           *)
(***************************************************************************)

\* The conversation starters whose threads the sent list shows: found from
\* the messages user sent and has not deleted, kept when visible to user.
SentConversationStarters(db, user) ==
    LET sent == {p \in PKs(db) : db[p].sender = user /\ ~db[p].is_deleted_by_sender}
        user_initiated == {p \in sent : db[p].conversation_starter = None}
        all_sent_starter_ids == {db[p].conversation_starter : p \in sent}
        unique_starter_pks == (user_initiated \cup all_sent_starter_ids) \ {None}
    IN  {p \in unique_starter_pks : p \in PKs(db) /\ Visible(db[p], user)}

\* The sent list of user: one summary row per listed thread, latest first.
SentMessagesView_get_queryset(db, user) ==
    LET starters == OrderBy(db, SentConversationStarters(db, user), FALSE)
    IN  Sorted(db, LatestPerConversation(db, user, starters), TRUE)

(***************************************************************************)
(* SendMessageView.form_valid                                              *)
(***************************************************************************)

\* Mutant of StarterOf: the reply is attached to its parent, not to the
\* parent's starter.
StarterOf_Parent(db, parent_pk) == parent_pk

\* parent_message.conversation_starter or parent_message
StarterOf(db, parent_pk) ==
    IF db[parent_pk].conversation_starter # None
    THEN db[parent_pk].conversation_starter
    ELSE parent_pk

\* get_object_or_404(Message, pk=parent_message_id)
ParentFound(db, user, parent_pk) == parent_pk \in PKs(db)

\* The table after the composer's writes: the INSERT, then the re-save of a
\* row whose conversation_starter is still null with itself as its starter.
form_valid(db, user, receiver, parent_pk, sent_at) ==
    LET pk       == Len(db) + 1
        starter  == IF parent_pk # None THEN StarterOf(db, parent_pk) ELSE None
        instance == Message(user, receiver, sent_at, parent_pk, starter)
        inserted == Append(db, instance)
    IN  IF instance.conversation_starter = None
        THEN [inserted EXCEPT ![pk].conversation_starter = pk]
        ELSE inserted

(***************************************************************************)
(* MessageDetailView                                                       *)
(***************************************************************************)

\* get_object_or_404(self.get_queryset(), pk=pk)
InQueryset(db, user, pk) == pk \in PKs(db) /\ Visible(db[pk], user)

\* Mutant of get_object: the message is not replaced by its starter.
get_object_AsGiven(db, user, pk) ==
    IF InQueryset(db, user, pk) THEN pk ELSE None

\* get_object: the thread head the view loads, None for a 404.
get_object(db, user, pk) ==
    IF ~InQueryset(db, user, pk) THEN None
    ELSE LET starter == db[pk].conversation_starter
         IN  IF starter # None /\ starter # pk
             THEN (IF InQueryset(db, user, starter) THEN starter ELSE None)
             ELSE pk

\* Mutant of conversation_messages: the deletion filter is left out.
conversation_messages_Unfiltered(db, user, starter) ==
    OrderBy(db, {p \in PKs(db) : InThread(db, p, starter)}, FALSE)

\* context['conversation_messages']
conversation_messages(db, user, starter) ==
    OrderBy(db, VisibleThread(db, user, starter), FALSE)

\* Mutant of MarkRead: the sender's own messages are marked too.
MarkRead_Anyone(m, user) == [m EXCEPT !.is_read = TRUE]

\* The row a viewed message is saved as.
MarkRead(m, user) ==
    IF user = m.receiver /\ ~m.is_read THEN [m EXCEPT !.is_read = TRUE] ELSE m

\* The table after get_context_data's loop over conversation_messages.
get_context_data(db, user, starter) ==
    LET shown == Range(conversation_messages(db, user, starter))
    IN  [p \in PKs(db) |-> IF p \in shown THEN MarkRead(db[p], user) ELSE db[p]]

(***************************************************************************)
(* delete_conversation_view                                                *)
(***************************************************************************)

\* Mutant of IsParticipant: the authorization check lets everyone through.
IsParticipant_Anyone(m, user) == TRUE

\* conversation_starter.sender == user or conversation_starter.receiver == user
IsParticipant(m, user) == m.sender = user \/ m.receiver = user

\* Mutant of SoftDelete: both flags are set, whatever the user's role.
SoftDelete_BothSides(m, user) ==
    [m EXCEPT !.is_deleted_by_sender = TRUE, !.is_deleted_by_receiver = TRUE]

\* The row a message of the thread is saved as.
SoftDelete(m, user) ==
    [m EXCEPT !.is_deleted_by_sender   = IF m.sender = user THEN TRUE ELSE @,
              !.is_deleted_by_receiver = IF m.receiver = user THEN TRUE ELSE @]

\* Mutant of delete_conversation: only the starter row is deleted.
delete_conversation_HeadOnly(db, user, starter) ==
    [p \in PKs(db) |-> IF p = starter THEN SoftDelete(db[p], user) ELSE db[p]]

\* The table after the loop over messages_in_thread.
delete_conversation(db, user, starter) ==
    [p \in PKs(db) |-> IF InThread(db, p, starter) THEN SoftDelete(db[p], user)
                                                   ELSE db[p]]

(***************************************************************************)
(* The three handlers as functions of the table and the request: the       *)
(* response status, the table they leave, and what they render.            *)
(***************************************************************************)

Response(status, db, result) == [status |-> status, db |-> db, result |-> result]

\* POST to SendMessageView by user, to receiver, replying to parent_pk
\* (None: a fresh message).  result: the new row's primary key.
SendMessageView_post(db, user, receiver, parent_pk, sent_at) ==
    IF parent_pk # None /\ ~ParentFound(db, user, parent_pk)
    THEN Response("not_found", db, <<>>)
    ELSE Response("ok", form_valid(db, user, receiver, parent_pk, sent_at),
                  <<Len(db) + 1>>)

\* GET of MessageDetailView by user for message pk.  result: the rendered
\* conversation_messages.
MessageDetailView_get(db, user, pk) ==
    LET starter == get_object(db, user, pk)
    IN  IF starter = None
        THEN Response("not_found", db, <<>>)
        ELSE Response("ok", get_context_data(db, user, starter),
                      conversation_messages(db, user, starter))

\* delete_conversation_view by user for the thread of message pk.
delete_conversation_view(db, user, pk) ==
    IF pk \notin PKs(db) THEN Response("not_found", db, <<>>)
    ELSE IF ~IsParticipant(db[pk], user) THEN Response("forbidden", db, <<>>)
    ELSE Response("ok", delete_conversation(db, user, pk), <<>>)

(***************************************************************************)
(* Requests, each run to completion                                        *)
(***************************************************************************)

\* No request of the user is in flight.
Idle == [op |-> "idle", pc |-> "idle", pk |-> None, rows |-> <<>>]

Init ==
    /\ msgs = <<>>
    /\ now = 1
    /\ reqs = [u \in Users |-> Idle]
    /\ served = 0

SendMessage(user, receiver, parent_pk) ==
    /\ Len(msgs) < MaxMsgs
    /\ LET r == SendMessageView_post(msgs, user, receiver, parent_pk, now)
       IN  /\ msgs' = r.db
           /\ now' = IF r.status = "ok" THEN now + 1 ELSE now
    /\ UNCHANGED <<reqs, served>>

ViewMessage(user, pk) ==
    /\ msgs' = MessageDetailView_get(msgs, user, pk).db
    /\ UNCHANGED <<now, reqs, served>>

DeleteConversation(user, pk) ==
    /\ msgs' = delete_conversation_view(msgs, user, pk).db
    /\ UNCHANGED <<now, reqs, served>>

Next ==
    \/ \E user \in Users : \E receiver \in ReceiverChoices(user) :
         \E parent_pk \in {None} \cup RequestPKs :
            SendMessage(user, receiver, parent_pk)
    \/ \E user \in Users : \E pk \in RequestPKs : ViewMessage(user, pk)
    \/ \E user \in Users : \E pk \in RequestPKs : DeleteConversation(user, pk)

Spec == Init /\ [][Next]_vars

(***************************************************************************)
(* Requests of different users interleaved query by query.  A request      *)
(* holds the model instances it has read in rows, as <<pk, instance>>      *)
(* pairs; instance.save() writes the whole instance over the row of its    *)
(* primary key; a single query or row write is atomic.                     *)
(***************************************************************************)

\* At most this many interleaved requests are served.
MaxReqs == 3

Request(op, pc, pk, rows) == [op |-> op, pc |-> pc, pk |-> pk, rows |-> rows]

\* The instances of the rows of keys, as a sequence of <<pk, instance>>.
Instances(db, keys) == [i \in 1..Len(keys) |-> <<keys[i], db[keys[i]]>>]

\* model.save() of instance: UPDATE of every column of row pk.
Save(db, pk, instance) == [db EXCEPT ![pk] = instance]

CanBegin(user) == reqs[user].op = "idle" /\ served < MaxReqs

\* form_valid up to super().form_valid(form): the parent is fetched and the
\* new row inserted; a row inserted without a starter waits for its re-save.
BeginSend(user, receiver, parent_pk) ==
    /\ CanBegin(user)
    /\ Len(msgs) < MaxMsgs
    /\ parent_pk # None => ParentFound(msgs, user, parent_pk)
    /\ LET pk       == Len(msgs) + 1
           starter  == IF parent_pk # None THEN StarterOf(msgs, parent_pk) ELSE None
           instance == Message(user, receiver, now, parent_pk, starter)
       IN  /\ msgs' = Append(msgs, instance)
           /\ reqs' = [reqs EXCEPT ![user] =
                         IF instance.conversation_starter = None
                         THEN Request("send", "self_link", pk, <<<<pk, instance>>>>)
                         ELSE Idle]
    /\ now' = now + 1
    /\ served' = served + 1

\* form.instance.conversation_starter = form.instance; form.instance.save()
SelfLink(user) ==
    /\ reqs[user].pc = "self_link"
    /\ LET pk       == reqs[user].rows[1][1]
           instance == reqs[user].rows[1][2]
       IN  msgs' = Save(msgs, pk, [instance EXCEPT !.conversation_starter = pk])
    /\ reqs' = [reqs EXCEPT ![user] = Idle]
    /\ UNCHANGED <<now, served>>

\* MessageDetailView.get_object
BeginView(user, pk) ==
    /\ CanBegin(user)
    /\ get_object(msgs, user, pk) # None
    /\ reqs' = [reqs EXCEPT ![user] =
                  Request("view", "read_thread", get_object(msgs, user, pk), <<>>)]
    /\ served' = served + 1
    /\ UNCHANGED <<msgs, now>>

\* delete_conversation_view up to the authorization check
BeginDelete(user, pk) ==
    /\ CanBegin(user)
    /\ pk \in PKs(msgs)
    /\ IsParticipant(msgs[pk], user)
    /\ reqs' = [reqs EXCEPT ![user] = Request("delete", "read_thread", pk, <<>>)]
    /\ served' = served + 1
    /\ UNCHANGED <<msgs, now>>

\* The query of the thread's rows, evaluated when the loop over it starts:
\* conversation_messages of the view, messages_in_thread of the delete.
ReadThread(user) ==
    /\ reqs[user].pc = "read_thread"
    /\ LET starter == reqs[user].pk
           keys == IF reqs[user].op = "view"
                   THEN conversation_messages(msgs, user, starter)
                   ELSE OrderBy(msgs, {p \in PKs(msgs) : InThread(msgs, p, starter)},
                                FALSE)
       IN  reqs' = [reqs EXCEPT ![user] =
                      IF keys = <<>> THEN Idle
                      ELSE [@ EXCEPT !.pc = "save", !.rows = Instances(msgs, keys)]]
    /\ UNCHANGED <<msgs, now, served>>

\* One turn of the loop over the instances read: the view saves a message
\* it marks read, the delete saves every message.
SaveNext(user) ==
    /\ reqs[user].pc = "save"
    /\ LET pk       == reqs[user].rows[1][1]
           instance == reqs[user].rows[1][2]
           rest     == Tail(reqs[user].rows)
       IN  /\ msgs' = IF reqs[user].op = "view"
                      THEN (IF MarkRead(instance, user) # instance
                            THEN Save(msgs, pk, MarkRead(instance, user))
                            ELSE msgs)
                      ELSE Save(msgs, pk, SoftDelete(instance, user))
           /\ reqs' = [reqs EXCEPT ![user] =
                         IF rest = <<>> THEN Idle ELSE [@ EXCEPT !.rows = rest]]
    /\ UNCHANGED <<now, served>>

NextC ==
    \/ \E user \in Users : \E receiver \in ReceiverChoices(user) :
         \E parent_pk \in {None} \cup PKs(msgs) :
            BeginSend(user, receiver, parent_pk)
    \/ \E user \in Users : SelfLink(user)
    \/ \E user \in Users : \E pk \in PKs(msgs) : BeginView(user, pk)
    \/ \E user \in Users : \E pk \in PKs(msgs) : BeginDelete(user, pk)
    \/ \E user \in Users : ReadThread(user)
    \/ \E user \in Users : SaveNext(user)

SpecC == Init /\ [][NextC]_vars

(***************************************************************************)
(* Vocabulary of the properties, stated apart from the handlers' code      *)
(***************************************************************************)

\* visible(M, user) of the data model.
CanSee(m, user) ==
    \/ (m.sender = user /\ m.is_deleted_by_sender = FALSE)
    \/ (m.receiver = user /\ m.is_deleted_by_receiver = FALSE)

\* The thread head of row p: its conversation_starter, itself when null.
HeadOf(db, p) ==
    IF db[p].conversation_starter = None THEN p ELSE db[p].conversation_starter

\* The rows of the thread of head h.
ThreadRows(db, h) == {p \in PKs(db) : p = h \/ db[p].conversation_starter = h}

\* The thread heads of the rows of a listing.
HeadsOf(db, rows) == {HeadOf(db, rows[i]) : i \in 1..Len(rows)}

\* The message a chain of parent_message links starts from.
RECURSIVE RootOf(_, _)
RootOf(db, p) ==
    IF db[p].parent_message = None THEN p ELSE RootOf(db, db[p].parent_message)

\* Everything of a row but its three flags.
Content(m) == <<m.sender, m.receiver, m.sent_at, m.parent_message,
                m.conversation_starter>>

(***************************************************************************)
(* C1                                                                      *)
(***************************************************************************)

\* C1: the inbox of every user holds exactly one row for each thread with a
\* message the user can see, none for a thread the user has wholly deleted,
\* and no two rows of one thread head.
C1_InboxOneRowPerVisibleThread ==
    \A user \in Users :
        LET rows == InboxView_get_queryset(msgs, user)
        IN  /\ HeadsOf(msgs, rows) =
                 {HeadOf(msgs, p) : p \in {q \in PKs(msgs) : CanSee(msgs[q], user)}}
            /\ \A i, j \in 1..Len(rows) :
                 i # j => HeadOf(msgs, rows[i]) # HeadOf(msgs, rows[j])

(***************************************************************************)
(* C2                                                                      *)
(***************************************************************************)

\* C2: every stored message is attached to the right head: without a parent
\* it is its own conversation_starter; with parent A its conversation_starter
\* is A's (A itself were A's null); so along a chain of replies down from
\* head H every message has conversation_starter H, and H has H.
C2_RepliesJoinParentThread ==
    \A p \in PKs(msgs) :
        LET m == msgs[p]
            A == m.parent_message
            H == RootOf(msgs, p)
        IN  /\ A = None => m.conversation_starter = p
            /\ A # None =>
                 /\ A \in PKs(msgs)
                 /\ m.conversation_starter =
                      (IF msgs[A].conversation_starter # None
                       THEN msgs[A].conversation_starter ELSE A)
            /\ m.conversation_starter = H
            /\ msgs[H].conversation_starter = H

\* A reply to a reply has been sent.
C2_Witness ==
    \E p \in PKs(msgs) :
        /\ msgs[p].parent_message # None
        /\ msgs[msgs[p].parent_message].parent_message # None
        /\ msgs[p].conversation_starter = RootOf(msgs, p)

(***************************************************************************)
(* C3                                                                      *)
(***************************************************************************)

\* C3: in every reachable table, delete_conversation by P on any message
\* changes visible(M, Q) for no message M and no other user Q; on each row it
\* at most sets the deletion flag of the roles P holds on it, and it leaves
\* rows P has no role on, everything but the deletion flags, and the rows of
\* other threads as they were.
C3_DeleteTouchesOnlyOwnFlags ==
    \A P \in Users : \A head \in PKs(msgs) :
        LET after == delete_conversation_view(msgs, P, head).db
        IN  /\ Len(after) = Len(msgs)
            /\ \A p \in PKs(msgs) :
                 LET old == msgs[p]
                     new == after[p]
                 IN  /\ \A Q \in Users \ {P} : CanSee(new, Q) = CanSee(old, Q)
                     /\ Content(new) = Content(old)
                     /\ new.is_read = old.is_read
                     /\ new.is_deleted_by_sender # old.is_deleted_by_sender
                          => old.sender = P /\ new.is_deleted_by_sender
                     /\ new.is_deleted_by_receiver # old.is_deleted_by_receiver
                          => old.receiver = P /\ new.is_deleted_by_receiver
                     /\ (old.sender # P /\ old.receiver # P) => new = old
                     /\ p \notin ThreadRows(msgs, head) => new = old

\* A participant has deleted a thread that its counterpart still sees, and a
\* further delete by the counterpart would hide rows.
C3_Witness ==
    \E h \in PKs(msgs) : \E p \in ThreadRows(msgs, h) :
        /\ p # h
        /\ msgs[h].is_deleted_by_sender /\ ~msgs[h].is_deleted_by_receiver
        /\ CanSee(msgs[p], msgs[h].receiver)
        /\ delete_conversation_view(msgs, msgs[h].receiver, h).db # msgs

(***************************************************************************)
(* C4                                                                      *)
(***************************************************************************)

\* C4: in every reachable table, once participant A has deleted the thread
\* of head h, A sees none of the thread's rows A has a role on and A's inbox
\* does not list the thread, while the inbox of the head's counterpart B, who
\* has not deleted it, still lists it.
C4_DeletedThreadLeavesOwnInboxOnly ==
    \A A \in Users : \A h \in PKs(msgs) :
        LET r     == delete_conversation_view(msgs, A, h)
            after == r.db
        IN  (HeadOf(msgs, h) = h /\ r.status = "ok") =>
              /\ \A p \in ThreadRows(after, h) :
                   (after[p].sender = A \/ after[p].receiver = A)
                       => ~CanSee(after[p], A)
              /\ h \notin HeadsOf(after, InboxView_get_queryset(after, A))
              /\ \A B \in {msgs[h].sender, msgs[h].receiver} \ {A} :
                   CanSee(msgs[h], B)
                       => h \in HeadsOf(after, InboxView_get_queryset(after, B))

\* A thread of a head and a reply that one participant has deleted and the
\* other's inbox lists.
C4_Witness ==
    \E h \in PKs(msgs) : \E p \in ThreadRows(msgs, h) :
        LET A == msgs[h].sender
            B == msgs[h].receiver
        IN  /\ p # h /\ msgs[p].sender = B /\ msgs[p].receiver = A
            /\ msgs[h].is_deleted_by_sender /\ msgs[p].is_deleted_by_receiver
            /\ h \notin HeadsOf(msgs, InboxView_get_queryset(msgs, A))
            /\ h \in HeadsOf(msgs, InboxView_get_queryset(msgs, B))

(***************************************************************************)
(* C5                                                                      *)
(***************************************************************************)

\* C5: in every reachable table, the messages a successful view renders for
\* head H are exactly the rows with conversation_starter H, or H itself, that
\* the user can see, each once, in ascending sent_at order.
C5_ThreadListIsVisibleThreadInOrder ==
    \A user \in Users : \A pk \in PKs(msgs) :
        LET r    == MessageDetailView_get(msgs, user, pk)
            H    == get_object(msgs, user, pk)
            list == r.result
        IN  r.status = "ok" =>
              /\ {list[i] : i \in 1..Len(list)} =
                   {p \in PKs(msgs) :
                      (msgs[p].conversation_starter = H \/ p = H)
                      /\ CanSee(msgs[p], user)}
              /\ \A i, j \in 1..Len(list) :
                   i < j => /\ list[i] # list[j]
                            /\ msgs[list[i]].sent_at <= msgs[list[j]].sent_at

\* A user views a thread of which two rows are rendered and one is hidden
\* from that user.
C5_Witness ==
    \E user \in Users : \E pk \in PKs(msgs) :
        LET r == MessageDetailView_get(msgs, user, pk)
        IN  /\ r.status = "ok"
            /\ Len(r.result) >= 2
            /\ \E p \in ThreadRows(msgs, get_object(msgs, user, pk)) :
                 ~CanSee(msgs[p], user)

(***************************************************************************)
(* C6                                                                      *)
(***************************************************************************)

\* C6 as claimed: for every user and every message M the user can see,
\* resolving M yields M's thread head, and so does resolving the head.
C6_ResolveYieldsHead ==
    \A user \in Users : \A p \in PKs(msgs) :
        CanSee(msgs[p], user) =>
            /\ get_object(msgs, user, p) = HeadOf(msgs, p)
            /\ get_object(msgs, user, HeadOf(msgs, p)) = HeadOf(msgs, p)

\* C6 as amended: for every user and every message M the user can see,
\* resolving M ends as resolving M's thread head ends: with the head when the
\* user can see the head, with NotFound (None) when the user cannot.
C6_ResolveAgreesWithHead ==
    \A user \in Users : \A p \in PKs(msgs) :
        CanSee(msgs[p], user) =>
            LET h == HeadOf(msgs, p)
            IN  /\ get_object(msgs, user, p) = get_object(msgs, user, h)
                /\ get_object(msgs, user, p) =
                     (IF CanSee(msgs[h], user) THEN h ELSE None)

\* One user resolves a reply to its head, and another user sees a reply
\* whose head that user cannot see.
C6_Witness ==
    /\ \E user \in Users : \E p \in PKs(msgs) :
         /\ CanSee(msgs[p], user) /\ HeadOf(msgs, p) # p
         /\ get_object(msgs, user, p) = HeadOf(msgs, p)
    /\ \E user \in Users : \E p \in PKs(msgs) :
         /\ CanSee(msgs[p], user) /\ ~CanSee(msgs[HeadOf(msgs, p)], user)
         /\ get_object(msgs, user, p) = None

(***************************************************************************)
(* C7                                                                      *)
(***************************************************************************)

\* C7: in every reachable table, a successful view by user sets is_read on
\* every rendered message whose receiver is user and changes no other row and
\* no other field; the same view repeated at once succeeds and changes
\* nothing.
C7_ViewMarksOnlyReceivedAndIsIdempotent ==
    \A user \in Users : \A pk \in PKs(msgs) :
        LET r     == MessageDetailView_get(msgs, user, pk)
            after == r.db
            shown == {r.result[i] : i \in 1..Len(r.result)}
            again == MessageDetailView_get(after, user, pk)
        IN  r.status = "ok" =>
              /\ Len(after) = Len(msgs)
              /\ \A p \in PKs(msgs) :
                   IF p \in shown /\ msgs[p].receiver = user
                   THEN after[p] = [msgs[p] EXCEPT !.is_read = TRUE]
                   ELSE after[p] = msgs[p]
              /\ again.status = "ok"
              /\ again.db = after
              /\ again.result = r.result

\* A receiver has viewed a thread: the message received is read, the reply
\* the viewer sent in the same thread is not, and a view by the other side
\* would now mark that reply.
C7_Witness ==
    \E h \in PKs(msgs) : \E p, q \in ThreadRows(msgs, h) :
        /\ msgs[p].is_read /\ ~msgs[q].is_read
        /\ msgs[q].sender = msgs[p].receiver
        /\ msgs[q].receiver = msgs[p].sender
        /\ MessageDetailView_get(msgs, msgs[q].receiver, h).db # msgs

(***************************************************************************)
(* C8                                                                      *)
(***************************************************************************)

\* C8: in every reachable table, delete_conversation by a user who is
\* neither sender nor receiver of the message named ends Forbidden and
\* changes no row, also when the user sent or received another message of
\* that thread.
C8_DeleteByOutsiderForbidden ==
    \A user \in Users : \A pk \in PKs(msgs) :
        (msgs[pk].sender # user /\ msgs[pk].receiver # user) =>
            LET r == delete_conversation_view(msgs, user, pk)
            IN  r.status = "forbidden" /\ r.db = msgs

\* A user with no role on a thread head but with a visible message in its
\* thread is refused.
C8_Witness ==
    \E user \in Users : \E h \in PKs(msgs) : \E p \in ThreadRows(msgs, h) :
        /\ HeadOf(msgs, h) = h /\ p # h
        /\ msgs[h].sender # user /\ msgs[h].receiver # user
        /\ (msgs[p].sender = user \/ msgs[p].receiver = user)
        /\ CanSee(msgs[p], user)
        /\ delete_conversation_view(msgs, user, h).status = "forbidden"

(***************************************************************************)
(* C9                                                                      *)
(***************************************************************************)

\* C9: in every reachable table, a send whose parent, or a view whose
\* message, exists but is not visible to the requester ends NotFound and
\* changes nothing.
C9_InvisibleReferenceNotFound ==
    \A user \in Users : \A pk \in PKs(msgs) :
        ~CanSee(msgs[pk], user) =>
            /\ \A receiver \in ReceiverChoices(user) :
                 LET r == SendMessageView_post(msgs, user, receiver, pk, now)
                 IN  r.status = "not_found" /\ r.db = msgs
            /\ LET r == MessageDetailView_get(msgs, user, pk)
               IN  r.status = "not_found" /\ r.db = msgs

(***************************************************************************)
(* C10                                                                     *)
(***************************************************************************)

\* C10: under every interleaving of the queries and row writes of view, send
\* and delete_conversation requests of different users, is_read and the two
\* deletion flags of a row never go from true back to false.
C10_FlagsMonotone ==
    [][\A p \in PKs(msgs) :
          /\ msgs[p].is_read => msgs'[p].is_read
          /\ msgs[p].is_deleted_by_sender => msgs'[p].is_deleted_by_sender
          /\ msgs[p].is_deleted_by_receiver => msgs'[p].is_deleted_by_receiver]_vars

(***************************************************************************)
(* C11                                                                     *)
(***************************************************************************)

\* C11: the sent list of every user holds one row for each thread head found
\* from a message the user sent and has not deleted, and for no other head;
\* the row of a head is the latest message of its thread that the user can
\* see; the rows are in descending sent_at order.
C11_SentOneRowPerSentThread ==
    \A user \in Users :
        LET rows  == SentMessagesView_get_queryset(msgs, user)
            heads == {HeadOf(msgs, p) :
                        p \in {q \in PKs(msgs) :
                                 /\ msgs[q].sender = user
                                 /\ msgs[q].is_deleted_by_sender = FALSE}}
        IN  /\ HeadsOf(msgs, rows) = heads
            /\ Len(rows) = Cardinality(heads)
            /\ \A i \in 1..Len(rows) :
                 /\ CanSee(msgs[rows[i]], user)
                 /\ \A q \in ThreadRows(msgs, HeadOf(msgs, rows[i])) :
                      CanSee(msgs[q], user)
                          => msgs[q].sent_at <= msgs[rows[i]].sent_at
            /\ \A i, j \in 1..Len(rows) :
                 i < j => msgs[rows[i]].sent_at >= msgs[rows[j]].sent_at
====
